---- MODULE Spec2Model ----
(***************************************************************************)
(* combined_config: a CombinedConfig holds declared ConfigVars and a deque *)
(* of attached config sources; FileBackedConfigMixin reads and writes an   *)
(* ini file.  Modelled from src/lib/combined_config/config.py.             *)
(*                                                                         *)
(* Values are pairs <<python type, text>>, so that str(7) = "7" differs    *)
(* from 7 and the ini file, which stores text only, is not an identity.    *)
(* Variable names are lower-case identifiers (configparser's optionxform   *)
(* lower-cases option names; on such names it changes nothing).            *)
(***************************************************************************)
EXTENDS Integers, Sequences, FiniteSets, TLC

VARIABLES
    config_vars,        \* CombinedConfig.config_vars: the ConfigVar of each declared name, in registration order
    defaults,           \* CombinedConfig.defaults: name -> default, for non-None defaults
    configs,            \* CombinedConfig._configs: the deque of sources, front first
    ini_section_names,  \* the subclass's ini_section_names, in declaration order
    file,               \* the ini file at `filename`: section -> (option -> text)
    op,                 \* the last call made on the config
    arg,                \* the argument of that call (NoCall for read, write and iter)
    ret,                \* what the last access through the Values view returned or raised (NoCall otherwise)
    err,                \* the exception the last call raised, or NoError
    variables,          \* write()'s local `variables` of the last call (NoCall otherwise)
    values,             \* write()'s local `values` of the last call (NoCall otherwise)
    prepended,          \* history: sources passed to successful prepend calls, oldest first
    appended            \* history: sources passed to successful append calls, oldest first

vars == <<config_vars, defaults, configs, ini_section_names, file, op, arg, ret, err,
          variables, values, prepended, appended>>

----------------------------------------------------------------------------
(* Bounds *)

\* append and prepend are taken while the deque holds fewer than MaxSources
\* sources, read while it holds at most MaxSources.
MaxSources == 3

----------------------------------------------------------------------------
(* Python values *)

None == <<"NoneType", "None">>
PyStr(s) == <<"str", s>>
PyInt(s) == <<"int", s>>

\* str(value), as configparser.read_dict applies it to every value it stores.
str(v) == v[2]

\* An empty dict.
EmptyDict == <<>>

\* dict.get(key): the value, or None when the key is missing.
dict_get(d, key) == IF key \in DOMAIN d THEN d[key] ELSE None

----------------------------------------------------------------------------
(* Sources *)

CONFIG_TYPES == {"Namespace", "SectionProxy", "dict"}

ConfigException(t) == [exc |-> "ConfigException", type |-> t]
NoError == [exc |-> "none", type |-> "none"]
NoCall == <<"no call">>

\* _get_value: the singledispatch on the source's type.  A dict and a
\* SectionProxy answer get(key), a Namespace getattr(config, key, None); a
\* SectionProxy holds the file's text, which get returns as a str.
get_value(config, key) ==
    CASE config.type = "dict" -> dict_get(config.vals, key)
      [] config.type = "Namespace" -> dict_get(config.vals, key)
      [] config.type = "SectionProxy" ->
            IF key \in DOMAIN config.vals THEN PyStr(config.vals[key]) ELSE None
      [] OTHER -> ConfigException(config.type)

Range(s) == {s[i] : i \in DOMAIN s}

\* config_vars.keys(): the declared names, in registration order.
keys(cvs) == [i \in DOMAIN cvs |-> cvs[i].name]

\* find with the scan won by the last source that has the key.
find_from_last(cfgs, i, key) ==
    LET hits == {j \in i..Len(cfgs) : get_value(cfgs[j], key) # None}
    IN  IF hits = {} THEN dict_get(defaults, key)
        ELSE get_value(cfgs[CHOOSE j \in hits : \A h \in hits : h <= j], key)

\* find's loop over a deque of sources: the first value that is not None,
\* else defaults.get(key).
RECURSIVE find_from(_, _, _)
find_from(cfgs, i, key) ==
    IF i > Len(cfgs) THEN dict_get(defaults, key)
    ELSE LET value == get_value(cfgs[i], key)
         IN  IF value # None THEN value ELSE find_from(cfgs, i + 1, key)

find_in(cfgs, key) == find_from(cfgs, 1, key)

find(key) == find_in(configs, key)

\* _get_sources: the sources that currently give a non-None value for key.
get_sources(key) ==
    SelectSeq(configs, LAMBDA config : get_value(config, key) # None)

\* defaulted_values that accepts the default from any source, not the winning one.
defaulted_values_any ==
    {k \in Range(keys(config_vars)) :
        /\ k \in DOMAIN defaults
        /\ \/ find(k) = defaults[k]
           \/ \E i \in DOMAIN configs : get_value(configs[i], k) = defaults[k]}

defaulted_values ==
    {k \in Range(keys(config_vars)) : k \in DOMAIN defaults /\ find(k) = defaults[k]}

\* provided_args that looks at the winning source only.
provided_args_winner ==
    {k \in Range(keys(config_vars)) :
        Len(get_sources(k)) > 0 /\ get_sources(k)[1].type = "Namespace"}

provided_args ==
    {k \in Range(keys(config_vars)) :
        \E s \in Range(get_sources(k)) : s.type = "Namespace"}

\* An exception raised in place of a return value.
Raise(e) == <<"raise", e>>

\* What ordinary attribute lookup finds on a Values object before
\* __getattr__ is asked: the instance's _config and the methods Values
\* inherits from Mapping (the dunder methods apart).
ValuesAttributes == {"_config", "get", "items", "keys", "values"}

\* Values.__getattr__ that looks the name up in the sources without the
\* membership test.
values_getattr_unchecked(name) ==
    IF name \in ValuesAttributes THEN <<"attribute", name>> ELSE find(name)

\* values.<name>: __getattr__ runs only when ordinary lookup fails.
values_getattr(name) ==
    IF name \in ValuesAttributes THEN <<"attribute", name>>
    ELSE IF name \notin Range(keys(config_vars)) THEN Raise("AttributeError")
    ELSE find(name)

\* Values.__getitem__
values_getitem(key) ==
    IF key \notin Range(keys(config_vars)) THEN Raise("KeyError")
    ELSE find(key)

\* Values.__iter__
values_iter == keys(config_vars)

variables_with_values ==
    [k \in {n \in Range(keys(config_vars)) : values_getitem(n) # None} |-> values_getitem(k)]

----------------------------------------------------------------------------
(* Construction *)

ConfigVar(name, default) == [name |-> name, default |-> default]

\* The declared variables of the modelled configuration.
TheConfigVars ==
    << ConfigVar("four", PyStr("score")), ConfigVar("and", None) >>

\* Constructor arguments with a name given twice, and with a name that is
\* also a method of the Values view.
DuplicateConfigVars ==
    << ConfigVar("four", PyStr("score")), ConfigVar("four", None) >>

ShadowedConfigVars ==
    << ConfigVar("keys", PyStr("id")), ConfigVar("four", PyStr("score")) >>

ConfigVarLists == {TheConfigVars, DuplicateConfigVars, ShadowedConfigVars}

\* __init__'s loop: config_vars[name] = config_var keeps the name's first
\* position and replaces the ConfigVar held there; defaults[name] is
\* assigned for every non-None default.
RECURSIVE init_config_vars(_, _, _)
init_config_vars(cvs, i, d) ==
    IF i > Len(cvs) THEN d
    ELSE init_config_vars(cvs, i + 1,
            IF \E j \in DOMAIN d : d[j].name = cvs[i].name
            THEN [j \in DOMAIN d |-> IF d[j].name = cvs[i].name THEN cvs[i] ELSE d[j]]
            ELSE Append(d, cvs[i]))

RECURSIVE init_defaults(_, _, _)
init_defaults(cvs, i, d) ==
    IF i > Len(cvs) THEN d
    ELSE init_defaults(cvs, i + 1,
            IF cvs[i].default # None
            THEN (cvs[i].name :> cvs[i].default) @@ d ELSE d)

----------------------------------------------------------------------------
(* Inputs *)

\* What a caller passes to append and prepend: dicts and argparse Namespaces
\* over the declared names, and objects of types the config does not know.
Attachable ==
    { [type |-> "dict", vals |-> ("four" :> PyStr("score")) @@ ("and" :> PyStr("seven"))],
      [type |-> "dict", vals |-> ("four" :> PyStr("thousand"))],
      [type |-> "dict", vals |-> ("and" :> PyInt("7"))],
      [type |-> "Namespace", vals |-> ("four" :> PyStr("score"))] }

Unrecognized ==
    { [type |-> "UnrecognizedType", vals |-> EmptyDict],
      [type |-> "list", vals |-> EmptyDict] }

\* ini_section_names of the subclass: section, and either "__ALL__"
\* (all = TRUE) or the names listed for the section.
Section(name, all, names) == [section |-> name, all |-> all, vars |-> names]

SectionMappings ==
    { << Section("abraham", FALSE, <<"four">>), Section("lincoln", FALSE, <<"four", "and">>) >>,
      << Section("abraham", FALSE, <<"four">>), Section("lincoln", TRUE, <<>>) >>,
      << Section("abraham", TRUE, <<>>), Section("lincoln", FALSE, <<"and">>) >>,
      << Section("abraham", TRUE, <<>>), Section("lincoln", TRUE, <<>>) >> }

\* The file before the program first touches it.
InitialFiles ==
    { EmptyDict,
      ("abraham" :> ("and" :> "seven")) @@ ("other" :> ("zz" :> "top")) }

----------------------------------------------------------------------------
(* append / prepend *)

\* append without the type check.
append_result_unchecked(cfgs, config) ==
    [configs |-> Append(cfgs, config), err |-> NoError]

\* prepend that adds at the back.
prepend_result_back(cfgs, config) ==
    IF config.type \notin CONFIG_TYPES
    THEN [configs |-> cfgs, err |-> ConfigException(config.type)]
    ELSE [configs |-> Append(cfgs, config), err |-> NoError]

\* The outcome of append(config) on the deque cfgs.
append_result(cfgs, config) ==
    IF config.type \notin CONFIG_TYPES
    THEN [configs |-> cfgs, err |-> ConfigException(config.type)]
    ELSE [configs |-> Append(cfgs, config), err |-> NoError]

\* The outcome of prepend(config) on the deque cfgs.
prepend_result(cfgs, config) ==
    IF config.type \notin CONFIG_TYPES
    THEN [configs |-> cfgs, err |-> ConfigException(config.type)]
    ELSE [configs |-> <<config>> \o cfgs, err |-> NoError]

append(config) ==
    /\ Len(configs) < MaxSources
    /\ LET r == append_result(configs, config)
       IN  /\ configs' = r.configs
           /\ err' = r.err
           /\ appended' = IF r.err = NoError THEN Append(appended, config) ELSE appended
    /\ op' = "append" /\ arg' = config
    /\ variables' = NoCall /\ values' = NoCall /\ ret' = NoCall
    /\ UNCHANGED <<config_vars, defaults, ini_section_names, file, prepended>>

prepend(config) ==
    /\ Len(configs) < MaxSources
    /\ LET r == prepend_result(configs, config)
       IN  /\ configs' = r.configs
           /\ err' = r.err
           /\ prepended' = IF r.err = NoError THEN Append(prepended, config) ELSE prepended
    /\ op' = "prepend" /\ arg' = config
    /\ variables' = NoCall /\ values' = NoCall /\ ret' = NoCall
    /\ UNCHANGED <<config_vars, defaults, ini_section_names, file, appended>>

----------------------------------------------------------------------------
(* FileBackedConfigMixin *)

\* configparser: has_section and the section's proxy, for a parsed file f.
has_section(f, name) == name \in DOMAIN f
section_proxy(f, name) == [type |-> "SectionProxy", vals |-> f[name]]

\* read's loop with each section put at the front of the deque.
RECURSIVE read_from_front(_, _, _, _)
read_from_front(f, names, i, cfgs) ==
    IF i > Len(names) THEN cfgs
    ELSE read_from_front(f, names, i + 1,
            IF has_section(f, names[i].section)
            THEN <<section_proxy(f, names[i].section)>> \o cfgs
            ELSE cfgs)

\* read()'s loop: the declared sections the parsed file has, in
\* declaration order, each appended to the deque.
RECURSIVE read_from(_, _, _, _)
read_from(f, names, i, cfgs) ==
    IF i > Len(names) THEN cfgs
    ELSE read_from(f, names, i + 1,
            IF has_section(f, names[i].section)
            THEN append_result(cfgs, section_proxy(f, names[i].section)).configs
            ELSE cfgs)

read_result(f, names, cfgs) == read_from(f, names, 1, cfgs)

read ==
    /\ LET after == read_result(file, ini_section_names, configs)
       IN  /\ Len(configs) <= MaxSources
           /\ configs' = after
           /\ appended' = appended \o SubSeq(after, Len(configs) + 1, Len(after))
    /\ op' = "read" /\ arg' = NoCall
    /\ err' = NoError
    /\ variables' = NoCall /\ values' = NoCall /\ ret' = NoCall
    /\ UNCHANGED <<config_vars, defaults, ini_section_names, file, prepended>>

\* write's filter with `and` for `or`: a provided key is dropped unless it
\* also differs from its default.
write_variables_and ==
    LET vwv == variables_with_values
        keep == {k \in DOMAIN vwv : k \in provided_args /\ k \notin defaulted_values}
    IN  [k \in keep |-> vwv[k]]

\* write without the filter: every variable with a value is kept.
write_variables_all == variables_with_values

\* write()'s `variables`: variables_with_values filtered to the keys that are
\* provided or not defaulted.
write_variables ==
    LET vwv == variables_with_values
        keep == {k \in DOMAIN vwv : k \in provided_args \/ k \notin defaulted_values}
    IN  [k \in keep |-> vwv[k]]

\* The inner loop over a section's listed names: those in `variables`.
section_values(names, vs) ==
    [k \in {n \in Range(names) : n \in DOMAIN vs} |-> vs[k]]

\* write's loop with values[section_name] = variables at "__ALL__": the
\* sections filled before the marker are kept.
RECURSIVE write_loop_keep(_, _, _, _)
write_loop_keep(names, i, vs, vals) ==
    IF i > Len(names) THEN vals
    ELSE IF names[i].all
         THEN [vals EXCEPT ![names[i].section] = vs]
         ELSE write_loop_keep(names, i + 1, vs,
                [vals EXCEPT ![names[i].section] =
                    [k \in {n \in Range(names[i].vars) : n \in DOMAIN vs} |-> vs[k]]
                        @@ vals[names[i].section]])

\* write()'s loop over ini_section_names.items(), with its break at "__ALL__".
RECURSIVE write_loop(_, _, _, _)
write_loop(names, i, vs, vals) ==
    IF i > Len(names) THEN vals
    ELSE IF names[i].all
         THEN (names[i].section :> vs)
         ELSE write_loop(names, i + 1, vs,
                [vals EXCEPT ![names[i].section] =
                    section_values(names[i].vars, vs) @@ vals[names[i].section]])

write_values(names, vs) ==
    write_loop(names, 1, vs, [s \in {names[i].section : i \in DOMAIN names} |-> EmptyDict])

\* read_dict that replaces a computed section instead of merging into it.
read_dict_replace(f, vals) ==
    [s \in DOMAIN f \cup DOMAIN vals |->
        IF s \notin DOMAIN vals THEN f[s]
        ELSE [k \in DOMAIN vals[s] |-> str(vals[s][k])]]

\* configparser.read_dict(values) on the parsed file f: each section is
\* added when missing and each value stored as str(value).
read_dict(f, vals) ==
    [s \in DOMAIN f \cup DOMAIN vals |->
        IF s \notin DOMAIN vals THEN f[s]
        ELSE LET old == IF s \in DOMAIN f THEN f[s] ELSE EmptyDict
             IN  [k \in DOMAIN old \cup DOMAIN vals[s] |->
                    IF k \in DOMAIN vals[s] THEN str(vals[s][k]) ELSE old[k]]]

write ==
    /\ variables' = write_variables
    /\ values' = write_values(ini_section_names, write_variables)
    /\ file' = read_dict(file, write_values(ini_section_names, write_variables))
    /\ op' = "write" /\ arg' = NoCall
    /\ err' = NoError /\ ret' = NoCall
    /\ UNCHANGED <<config_vars, defaults, configs, ini_section_names, prepended, appended>>

----------------------------------------------------------------------------
(* The program *)

\* The state __init__(*cvs) leaves.
InitWith(cvs) ==
    /\ config_vars = init_config_vars(cvs, 1, <<>>)
    /\ defaults = init_defaults(cvs, 1, EmptyDict)
    /\ configs = <<>>
    /\ op = "init"
    /\ arg = cvs
    /\ ret = NoCall
    /\ err = NoError
    /\ variables = NoCall
    /\ values = NoCall
    /\ prepended = <<>>
    /\ appended = <<>>

Init ==
    /\ InitWith(TheConfigVars)
    /\ ini_section_names \in SectionMappings
    /\ file \in InitialFiles

Next ==
    \/ \E config \in Attachable \cup Unrecognized : append(config)
    \/ \E config \in Attachable \cup Unrecognized : prepend(config)
    \/ read
    \/ write

Spec == Init /\ [][Next]_vars

----------------------------------------------------------------------------
(* The Values view *)

\* The names asked of the view: declared ones, one that only sources hold
\* or nothing holds, and one that is a method of the view.
AccessNames == {"four", "and", "keys", "nothing"}

Exception(outcome) ==
    IF outcome[1] = "raise" THEN [exc |-> outcome[2], type |-> "none"] ELSE NoError

\* values.<name>
getattr(name) ==
    /\ ret' = values_getattr(name)
    /\ err' = Exception(values_getattr(name))
    /\ op' = "getattr" /\ arg' = name
    /\ variables' = NoCall /\ values' = NoCall
    /\ UNCHANGED <<config_vars, defaults, configs, ini_section_names, file,
                   prepended, appended>>

\* values[key]
getitem(key) ==
    /\ ret' = values_getitem(key)
    /\ err' = Exception(values_getitem(key))
    /\ op' = "getitem" /\ arg' = key
    /\ variables' = NoCall /\ values' = NoCall
    /\ UNCHANGED <<config_vars, defaults, configs, ini_section_names, file,
                   prepended, appended>>

\* list(iter(values))
iter ==
    /\ ret' = values_iter
    /\ err' = NoError
    /\ op' = "iter" /\ arg' = NoCall
    /\ variables' = NoCall /\ values' = NoCall
    /\ UNCHANGED <<config_vars, defaults, configs, ini_section_names, file,
                   prepended, appended>>

\* One section holding everything, as read() is given in the tests.
SingleSection == << Section("abraham", TRUE, <<>>) >>

\* A config built from any of the argument lists, sources attached and the
\* file read in any order, and the view used between those calls.
InitValues ==
    /\ \E cvs \in ConfigVarLists : InitWith(cvs)
    /\ ini_section_names = SingleSection
    /\ file \in InitialFiles

NextValues ==
    \/ \E config \in Attachable \cup Unrecognized : append(config)
    \/ \E config \in Attachable \cup Unrecognized : prepend(config)
    \/ read
    \/ \E name \in AccessNames : getattr(name)
    \/ \E key \in AccessNames : getitem(key)
    \/ iter

SpecValues == InitValues /\ [][NextValues]_vars

----------------------------------------------------------------------------
(* What the claims speak of, stated without the operators above *)

Declared == Range(keys(config_vars))

Reverse(s) == [i \in 1..Len(s) |-> s[Len(s) + 1 - i]]

\* The present value source `config` holds for k, or None.
Supplied(config, k) ==
    IF k \notin DOMAIN config.vals THEN None
    ELSE IF config.type = "SectionProxy" THEN PyStr(config.vals[k])
    ELSE config.vals[k]

\* The positions of cfgs that supply k.
Suppliers(cfgs, k) == {i \in DOMAIN cfgs : Supplied(cfgs[i], k) # None}

RecordedDefault(k) == IF k \in DOMAIN defaults THEN defaults[k] ELSE None

\* The value of the front-most supplying source, else the recorded default.
Resolved(cfgs, k) ==
    LET S == Suppliers(cfgs, k)
    IN  IF S = {} THEN RecordedDefault(k)
        ELSE Supplied(cfgs[CHOOSE i \in S : \A j \in S : i <= j], k)

AtDefault(k) == k \in DOMAIN defaults /\ Resolved(configs, k) = defaults[k]

CliSupplied(k) ==
    \E i \in DOMAIN configs :
        configs[i].type = "Namespace" /\ Supplied(configs[i], k) # None

----------------------------------------------------------------------------
(* C1: find(name) is the value of the first source, front to back, that  *)
(* supplies a present value for name; with no such source it is the       *)
(* recorded default, and with no recorded default it is None.             *)
C1_FindFirstMatch ==
    \A k \in Declared : find(k) = Resolved(configs, k)

\* The key is in the 2nd and 4th source, not in the 1st and 3rd.
C1_Witness ==
    \E k \in Declared :
        /\ Len(configs) = 4
        /\ Suppliers(configs, k) = {2, 4}
        /\ Supplied(configs[2], k) # Supplied(configs[4], k)
        /\ find(k) = Supplied(configs[2], k)

(* C2: the deque is the prepended sources, newest first, followed by the  *)
(* appended sources, oldest first; no step removes or reorders a source.  *)
C2_AttachOrder ==
    /\ [](configs = Reverse(prepended) \o appended)
    /\ [][\E front, back \in 0..2 :
            /\ Len(configs') = front + Len(configs) + back
            /\ SubSeq(configs', front + 1, front + Len(configs)) = configs]_vars

C2_Witness ==
    /\ Len(prepended) = 2
    /\ Len(appended) = 1
    /\ prepended[1] # prepended[2]
    /\ configs = <<prepended[2], prepended[1], appended[1]>>

(* C3: append and prepend of a source of no recognized type raise a       *)
(* ConfigException naming that type and leave the deque as it was.        *)
C3_UnrecognizedRejected ==
    [][(op' \in {"append", "prepend"}
            /\ arg'.type \notin {"dict", "Namespace", "SectionProxy"})
        => (err' = ConfigException(arg'.type) /\ configs' = configs)]_vars

C3_Witness ==
    /\ op \in {"append", "prepend"}
    /\ arg.type = "UnrecognizedType"
    /\ err = ConfigException("UnrecognizedType")
    /\ Len(configs) >= 1

(* C4: defaulted_values is the set of declared names with a recorded      *)
(* default whose resolved value equals that default.                      *)
C4_DefaultedValues ==
    defaulted_values = {k \in Declared : AtDefault(k)}

\* The winning source gives another value; a source further back the default.
C4_Witness ==
    \E k \in Declared :
        /\ k \in DOMAIN defaults
        /\ \E i, j \in DOMAIN configs :
            /\ i < j
            /\ Suppliers(configs, k) \cap 1..i = {i}
            /\ Supplied(configs[i], k) # defaults[k]
            /\ Supplied(configs[j], k) = defaults[k]
        /\ k \notin defaulted_values

(* C5: provided_args is the set of declared names that some Namespace     *)
(* source, at any position, supplies a present value for.                 *)
C5_ProvidedArgs ==
    provided_args = {k \in Declared : CliSupplied(k)}

\* A Namespace behind the winning dict still counts; a name no Namespace has does not.
C5_Witness ==
    \E k, n \in Declared :
        /\ Suppliers(configs, k) # {}
        /\ configs[CHOOSE i \in Suppliers(configs, k) :
                    \A j \in Suppliers(configs, k) : i <= j].type = "dict"
        /\ k \in provided_args
        /\ Suppliers(configs, n) # {}
        /\ n \notin provided_args

C6_WitnessSkipped ==
    /\ op = "write"
    /\ \E k \in Declared :
        /\ AtDefault(k) /\ ~CliSupplied(k) /\ Suppliers(configs, k) # {}
        /\ k \notin DOMAIN variables

\* The sections ini_section_names declares.
DeclaredSections == {ini_section_names[i].section : i \in DOMAIN ini_section_names}

HasKey(f, s, k) == s \in DOMAIN f /\ k \in DOMAIN f[s]

\* The sections write() puts its pairs in: the first "__ALL__" section, or,
\* when no section has the marker, every section (each with its listed names).
MarkerSections == {i \in DOMAIN ini_section_names : ini_section_names[i].all}

FirstMarker == CHOOSE i \in MarkerSections : \A j \in MarkerSections : i <= j

AssignedSections(k) ==
    IF MarkerSections # {} THEN {ini_section_names[FirstMarker].section}
    ELSE {ini_section_names[i].section :
            i \in {j \in DOMAIN ini_section_names :
                        k \in Range(ini_section_names[j].vars)}}

(* C7 as stated: after write() the declared sections of the file hold no  *)
(* key for a variable that is at its default and that no Namespace source  *)
(* supplies.                                                              *)
C7_Original ==
    op = "write" =>
        \A k \in Declared : \A s \in DeclaredSections :
            (AtDefault(k) /\ ~CliSupplied(k)) => ~HasKey(file, s, k)

(* C7 amended: write() neither adds nor changes a key of a declared       *)
(* section for a variable at its default that no Namespace source         *)
(* supplies: after the call the section holds such a key only if it held  *)
(* it before, with the same text; the same variable at its default but    *)
(* supplied by a Namespace is in every section write() assigns it to.     *)
C7_DefaultNotWritten ==
    [][op' = "write" =>
        \A k \in Declared :
            /\ (AtDefault(k) /\ ~CliSupplied(k)) =>
                \A s \in DeclaredSections :
                    HasKey(file', s, k) =>
                        (HasKey(file, s, k) /\ file'[s][k] = file[s][k])
            /\ (AtDefault(k) /\ CliSupplied(k)) =>
                \A s \in AssignedSections(k) :
                    HasKey(file', s, k) /\ file'[s][k] = str(Resolved(configs, k))]_vars

\* The scenario: a dict gives four its default and `and` a value; after the
\* write a declared section has `and` and not four.
C7_Witness ==
    /\ op = "write"
    /\ \E k, n \in Declared : \E s \in DeclaredSections :
        /\ AtDefault(k) /\ ~CliSupplied(k) /\ Suppliers(configs, k) # {}
        /\ ~HasKey(file, s, k)
        /\ HasKey(file, s, n)
        /\ PyStr(file[s][n]) = Resolved(configs, n)

(* C8: after write(), a fresh config with the same variables, sections    *)
(* and file, on which only read() is called, resolves every key that is   *)
(* not defaulted in the original to the original's resolved value.  It is *)
(* stated here for the keys the original has a value for, which are the   *)
(* keys write() is given to persist.                                      *)
C8_RoundTrip ==
    op = "write" =>
        \A k \in Declared :
            (k \notin defaulted_values /\ find(k) # None) =>
                find_in(read_result(file, ini_section_names, <<>>), k) = find(k)

\* The sections of f that read() attaches, in declaration order.
ExpectedSections(f) ==
    LET present == SelectSeq(ini_section_names, LAMBDA e : e.section \in DOMAIN f)
    IN  [i \in 1..Len(present) |->
            [type |-> "SectionProxy", vals |-> f[present[i].section]]]

(* C9: read() adds the declared sections the file has at the back, in     *)
(* declaration order, and nothing else; a variable an earlier source      *)
(* supplies resolves as before, and a value from the file is returned     *)
(* only for a variable no earlier source supplies.                        *)
C9_ReadUnderrides ==
    [][op' = "read" =>
        /\ configs' = configs \o ExpectedSections(file)
        /\ \A k \in Declared :
            /\ Suppliers(configs, k) # {} =>
                Resolved(configs', k) = Resolved(configs, k)
            /\ Resolved(configs', k) # Resolved(configs, k) =>
                Suppliers(configs, k) = {}]_vars

\* A read that attached a declared section while another declared section
\* and an undeclared one were left out, with one key a dict already supplied
\* differently and one key resolved from the file.
C9_Witness ==
    /\ op = "read"
    /\ Len(configs) >= 2
    /\ configs[Len(configs)].type = "SectionProxy"
    /\ configs[1].type = "dict"
    /\ DeclaredSections \ DOMAIN file # {}
    /\ DOMAIN file \ DeclaredSections # {}
    /\ \E k \in Declared :
        /\ Supplied(configs[Len(configs)], k) # None
        /\ Supplied(configs[1], k) # None
        /\ Supplied(configs[1], k) # Supplied(configs[Len(configs)], k)
        /\ find(k) = Supplied(configs[1], k)

C9_WitnessFromFile ==
    /\ op = "read"
    /\ \E k \in Declared :
        /\ Suppliers(configs, k) = {Len(configs)}
        /\ configs[Len(configs)].type = "SectionProxy"
        /\ find(k) = PyStr(configs[Len(configs)].vals[k])

\* What section s got from the last write().
Received(s) == IF s \in DOMAIN values THEN values[s] ELSE EmptyDict

\* Those of the listed names that are in write()'s `variables`.
ListedPersistable(names) ==
    [k \in Range(names) \cap DOMAIN variables |-> variables[k]]

(* C10 as stated: the first "__ALL__" section receives the whole           *)
(* persistable set, and every section with an explicit list receives its  *)
(* listed names that are persistable, also when lists and the marker mix. *)
C10_Original ==
    op = "write" =>
        \A i \in DOMAIN ini_section_names :
            LET e == ini_section_names[i]
            IN  IF e.all
                THEN Received(e.section) =
                        (IF i = FirstMarker THEN variables ELSE EmptyDict)
                ELSE Received(e.section) = ListedPersistable(e.vars)

(* C10 amended: when some section has the "__ALL__" marker, the first such *)
(* section receives the whole persistable set and no other section         *)
(* receives anything, explicit lists before or after it included; when no  *)
(* section has the marker, every section receives exactly its listed names *)
(* that are persistable.                                                   *)
C10_Sections ==
    op = "write" =>
        IF MarkerSections # {}
        THEN /\ DOMAIN values = {ini_section_names[FirstMarker].section}
             /\ values[ini_section_names[FirstMarker].section] = variables
        ELSE /\ DOMAIN values = DeclaredSections
             /\ \A i \in DOMAIN ini_section_names :
                    values[ini_section_names[i].section] =
                        ListedPersistable(ini_section_names[i].vars)

\* An explicit list before the marker, with one of its names persistable.
C10_Witness ==
    /\ op = "write"
    /\ MarkerSections # {}
    /\ \E i \in DOMAIN ini_section_names :
        /\ i < FirstMarker
        /\ ~ini_section_names[i].all
        /\ ListedPersistable(ini_section_names[i].vars) # EmptyDict
        /\ Received(ini_section_names[i].section) = EmptyDict

\* Whether the last write() computed key k for section s.
Computed(vals, s, k) == s \in DOMAIN vals /\ k \in DOMAIN vals[s]

(* C11: write() keeps every section and key of the file it did not        *)
(* compute, with its text; what it adds or overwrites are the computed     *)
(* section/key pairs (and the computed sections themselves) only.          *)
C11_WriteFrame ==
    [][op' = "write" =>
        /\ \A s \in DOMAIN file :
            /\ s \in DOMAIN file'
            /\ \A k \in DOMAIN file[s] :
                /\ k \in DOMAIN file'[s]
                /\ ~Computed(values', s, k) => file'[s][k] = file[s][k]
        /\ \A s \in DOMAIN file' :
            /\ s \in DOMAIN file \/ s \in DOMAIN values'
            /\ \A k \in DOMAIN file'[s] :
                IF Computed(values', s, k)
                THEN file'[s][k] = str(values'[s][k])
                ELSE HasKey(file, s, k) /\ file'[s][k] = file[s][k]]_vars

\* After a write: a section that was not computed, and a computed section
\* holding both a key that was computed and an older key that was not.
C11_Witness ==
    /\ op = "write"
    /\ DOMAIN file \ DOMAIN values # {}
    /\ \E s \in DOMAIN values :
        /\ s \in DOMAIN file
        /\ DOMAIN values[s] # {}
        /\ DOMAIN file[s] \ DOMAIN values[s] # {}

(* C12: through the Values view, values.name and values[name] of a         *)
(* declared name are find(name) on the sources as they are at the access,  *)
(* and iteration yields the declared names in registration order.          *)
C12_ViewIsFind ==
    /\ (op = "getattr" /\ arg \in Declared) => ret = Resolved(configs, arg)
    /\ (op = "getitem" /\ arg \in Declared) => ret = Resolved(configs, arg)
    /\ op = "iter" => ret = [i \in DOMAIN config_vars |-> config_vars[i].name]

\* The same, with attribute access stated only for the declared names that
\* are not attributes of the view itself: this much holds of the code.
C12_ExceptShadowed ==
    /\ (op = "getattr" /\ arg \in Declared \ ValuesAttributes) =>
            ret = Resolved(configs, arg)
    /\ (op = "getitem" /\ arg \in Declared) => ret = Resolved(configs, arg)
    /\ op = "iter" => ret = [i \in DOMAIN config_vars |-> config_vars[i].name]

\* An access that sees a source attached after construction.
C12_Seen ==
    /\ op = "getattr"
    /\ arg \in Declared
    /\ Suppliers(configs, arg) # {}
    /\ ret # RecordedDefault(arg)
    /\ ret = Resolved(configs, arg)

(* C13: construction with two variables of one name fails, so in every    *)
(* constructed config the names are unique and defaults holds, for each    *)
(* name, exactly the non-None default of the variable registered under it. *)
C13_UniqueNames ==
    /\ (op = "init" /\ err = NoError) =>
            \A i, j \in DOMAIN arg : arg[i].name = arg[j].name => i = j
    /\ \A i, j \in DOMAIN config_vars :
            config_vars[i].name = config_vars[j].name => i = j
    /\ DOMAIN defaults \subseteq Declared
    /\ \A i \in DOMAIN config_vars :
            RecordedDefault(config_vars[i].name) = config_vars[i].default

(* C14 as stated: attribute access to an undeclared name raises            *)
(* AttributeError and subscript access KeyError, whatever the sources hold.*)
C14_Original ==
    /\ (op = "getattr" /\ arg \notin Declared) =>
            (ret = Raise("AttributeError") /\ err.exc = "AttributeError")
    /\ (op = "getitem" /\ arg \notin Declared) =>
            (ret = Raise("KeyError") /\ err.exc = "KeyError")

(* C14 amended: subscript access to an undeclared name raises KeyError;    *)
(* attribute access to an undeclared name raises AttributeError unless the *)
(* name is an attribute of the Values object itself (_config, or a method  *)
(* inherited from Mapping), which is then returned; no source's value is   *)
(* returned in either case, whatever the sources hold.                     *)
C14_Undeclared ==
    /\ (op = "getattr" /\ arg \notin Declared) =>
            IF arg \in ValuesAttributes
            THEN ret = <<"attribute", arg>> /\ err = NoError
            ELSE ret = Raise("AttributeError") /\ err.exc = "AttributeError"
    /\ (op = "getitem" /\ arg \notin Declared) =>
            (ret = Raise("KeyError") /\ err.exc = "KeyError")

\* An undeclared name that an attached source holds.
C14_Witness ==
    /\ op = "getattr"
    /\ arg \notin Declared
    /\ \E i \in DOMAIN configs : arg \in DOMAIN configs[i].vals
    /\ ret = Raise("AttributeError")

C14_WitnessItem ==
    /\ op = "getitem"
    /\ arg \notin Declared
    /\ \E i \in DOMAIN configs : arg \in DOMAIN configs[i].vals
    /\ ret = Raise("KeyError")

====
